---- MODULE Spec2Model ----
(***************************************************************************)
(* A model of the video assembly pipeline of MoneyPrinterTurbo:            *)
(*   - app/services/task.py   start and its stage functions (the task      *)
(*     orchestrator), under the specification Spec;                        *)
(*   - app/services/video.py  combine_videos (pool building, packing,      *)
(*     normalising, transitions), under the specification SpecCombine, and *)
(*     under SpecFrames over source clips of many resolutions;             *)
(*   - app/services/video.py  generate_video and get_bgm_file, as the      *)
(*     render step of start; SpecRender is start over the render's inputs; *)
(*   - app/services/video.py  wrap_text and create_text_clip's placement,  *)
(*     under the specification SpecText.                                   *)
(* Durations are whole ticks (exact arithmetic); progress is kept in units *)
(* of 1/ProgressScale so that 50 / video_count / 2 is exact.               *)
(***************************************************************************)
EXTENDS Integers, Sequences, FiniteSets, TLC

\* ------------------------------------------------------------ bounds
\* Largest params.video_count drawn (0 is drawn too: range(0) runs no pass).
MaxVideoCount == 3
\* Largest audio duration, in ticks, the voice collaborator reports.
MaxAudioDuration == 2

\* ------------------------------------------------------------ values
\* Python's None, where a string is expected.
NoneStr == "<None>"
\* Option values: an unset key of the task record, and a stored value.
Unset == <<>>
Some(v) == <<v>>

TaskPending == "Pending"
TaskProcessing == "Processing"
TaskComplete == "Complete"
TaskFailed == "Failed"

StageNames == {"script", "terms", "audio", "subtitle", "materials", "video"}
OutputKeys == {"script", "terms", "audio_file", "audio_duration",
               "subtitle_path", "materials", "videos", "combined_videos"}

\* VideoConcatMode: the enum's values.
ConcatRandom == "random"
ConcatSequential == "sequential"
\* VideoTransitionMode: the values of the enum's members; `none = None` in a
\* str enum has the value str(None) = "None". TransitionUnset is the Python
\* None that VideoParams.video_transition_mode defaults to.
TransitionUnset == "<unset>"
TransitionNone == "None"
TransitionModes == {"None", "Shuffle", "FadeIn", "FadeOut", "SlideIn", "SlideOut"}

RECURSIVE Gcd(_, _)
Gcd(a, b) == IF b = 0 THEN a ELSE Gcd(b, a % b)
RECURSIVE LcmUpTo(_)
LcmUpTo(n) == IF n <= 1 THEN 1 ELSE (LcmUpTo(n - 1) * n) \div Gcd(LcmUpTo(n - 1), n)
\* Progress is stored in units of 1/ProgressScale: every 50 / n / 2 with
\* 1 <= n <= MaxVideoCount is then a whole number of units.
ProgressScale == 2 * LcmUpTo(MaxVideoCount)
Pct(p) == p * ProgressScale

VARIABLES
    params,       \* the VideoParams object handed to start
    stop_at,      \* start's stop_at argument
    pc,           \* where start is
    task,         \* the task record in the task store
    events,       \* in order: collaborator calls, stage returns, store updates
    result,       \* what start returned
    locals,       \* start's and generate_final_videos' local variables
    files         \* what generate_video finds on disk: the background tracks

VARIABLES
    cv_in,        \* combine_videos' arguments and the media it reads
    cv_pc,        \* where combine_videos is
    raw_clips,    \* the segment pool
    clips,        \* the packed output sequence
    video_duration,
    cv_loop       \* path index, start_time, pool index, last effect, error

VARIABLES
    wt_in,        \* wrap_text's arguments, and what create_text_clip is given
    wt_pc,        \* where wrap_text is
    wt            \* wrap_text's local variables and what it returned

orchVars == <<params, stop_at, pc, task, events, result, locals, files>>
cvVars == <<cv_in, cv_pc, raw_clips, clips, video_duration, cv_loop>>
textVars == <<wt_in, wt_pc, wt>>
vars == <<params, stop_at, pc, task, events, result, locals, files,
          cv_in, cv_pc, raw_clips, clips, video_duration, cv_loop,
          wt_in, wt_pc, wt>>

\* ------------------------------------------------------------ task store
\* The record of a task before start touches it.
NewTask == [state |-> TaskPending, progress |-> 0,
            outputs |-> [k \in OutputKeys |-> Unset]]

\* sm.state.update_task(task_id, **u): the fields given are written, the
\* others are kept.
UpdateTask(t, u) ==
    [state |-> IF "state" \in DOMAIN u THEN u.state ELSE t.state,
     progress |-> IF "progress" \in DOMAIN u THEN u.progress ELSE t.progress,
     outputs |-> [k \in OutputKeys |->
                    IF k \in DOMAIN u THEN Some(u[k]) ELSE t.outputs[k]]]

\* What a step of start does, in order.
Upd(u) == [kind |-> "update", fields |-> u]
Call(n, a) == [kind |-> "call", name |-> n, args |-> a]
Ret(n, v) == [kind |-> "return", name |-> n, value |-> v]
Exc(n, e) == [kind |-> "raise", name |-> n, error |-> e]

\* The task record after the updates among ops.
RECURSIVE Replay(_, _)
Replay(t, ops) ==
    IF ops = <<>> THEN t
    ELSE Replay(IF Head(ops).kind = "update"
                THEN UpdateTask(t, Head(ops).fields) ELSE t, Tail(ops))

\* ops as logged: each update with the record it leaves in the store.
RECURSIVE Logged(_, _)
Logged(t, ops) ==
    IF ops = <<>> THEN <<>>
    ELSE LET e == Head(ops)
             t2 == IF e.kind = "update" THEN UpdateTask(t, e.fields) ELSE t
         IN <<IF e.kind = "update"
               THEN [kind |-> "update", fields |-> e.fields, after |-> t2]
               ELSE e>> \o Logged(t2, Tail(ops))

Commit(ops) ==
    /\ task' = Replay(task, ops)
    /\ events' = events \o Logged(task, ops)

\* start goes on to its next stage.
Goto(next, ops, l) ==
    /\ Commit(ops)
    /\ pc' = next
    /\ locals' = l
    /\ UNCHANGED <<params, stop_at, result, files>>
    /\ UNCHANGED <<cvVars, textVars>>

\* start returns r.
Return(ops, r, l) ==
    /\ Commit(ops)
    /\ pc' = "done"
    /\ result' = r
    /\ locals' = l
    /\ UNCHANGED <<params, stop_at, files>>
    /\ UNCHANGED <<cvVars, textVars>>

\* An exception leaves start: nothing catches it there.
Raise(ops, l) ==
    /\ Commit(ops)
    /\ pc' = "raised"
    /\ result' = [kind |-> "raised"]
    /\ locals' = l
    /\ UNCHANGED <<params, stop_at, files>>
    /\ UNCHANGED <<cvVars, textVars>>

ResultPending == [kind |-> "pending"]
ResultNone == [kind |-> "none"]
\* A return that drops the mapping.
ResultDictDropped(d) == ResultNone
\* return {...}: the mapping of outputs start returns.
ResultDict(d) == [kind |-> "dict", value |-> d]

\* ------------------------------------------------------------ stage functions
\* str.strip() on the scripts drawn: blank text strips to the empty string.
Strip(s) == IF s = "  " THEN "" ELSE s
\* Python truthiness of a string or None.
Falsy(s) == s \in {"", NoneStr}
\* "Error: " in s
HasErrorMarker(s) == s \in {"Error: quota exceeded"}

\* What params.video_script may hold, and what llm.generate_script may return.
ScriptInputs == {"", "  ", "a script", "Error: quota exceeded"}
LlmScripts == {NoneStr, "", "a script", "Error: quota exceeded"}
\* params.video_terms (<<>>: None or empty) and llm.generate_terms' results.
TermInputs == {<<>>, <<"sea", "sun">>}
LlmTerms == {<<>>, <<"beach">>}
\* material.download_videos' and video.preprocess_video's results.
MaterialLists == {<<>>, <<"m1.mp4", "m2.mp4">>}

\* generate_script: [ops, value].
generate_script(p, llm_out) ==
    LET given == Strip(p.video_script)
        calls == IF given = ""
                 THEN <<Call("llm.generate_script", [paragraph_number |-> 1])>>
                 ELSE <<>>
        video_script == IF given = "" THEN llm_out ELSE given
    IN IF Falsy(video_script)
       THEN [ops |-> calls \o <<Upd([state |-> TaskFailed])>>, value |-> NoneStr]
       ELSE [ops |-> calls, value |-> video_script]

\* generate_terms: [ops, value]; <<>> stands for None.
generate_terms(p, video_script, llm_out) ==
    LET calls == IF p.video_terms = <<>>
                 THEN <<Call("llm.generate_terms", [amount |-> 5])>>
                 ELSE <<>>
        video_terms == IF p.video_terms = <<>> THEN llm_out ELSE p.video_terms
    IN IF video_terms = <<>>
       THEN [ops |-> calls \o <<Upd([state |-> TaskFailed])>>, value |-> <<>>]
       ELSE [ops |-> calls, value |-> video_terms]

\* generate_audio: tts_out is 0 when voice.tts returns None, else the audio's
\* duration rounded up. [ops, audio_file, audio_duration].
generate_audio(p, video_script, tts_out) ==
    LET calls == <<Call("voice.tts", [voice_file |-> "audio.mp3"])>>
    IN IF tts_out = 0
       THEN [ops |-> calls \o <<Upd([state |-> TaskFailed])>>,
             audio_file |-> NoneStr, audio_duration |-> 0]
       ELSE [ops |-> calls, audio_file |-> "audio.mp3", audio_duration |-> tts_out]

\* generate_subtitle: provider is config's subtitle_provider, exists whether
\* the edge provider left a file, valid whether the file parses to entries.
generate_subtitle(p, provider, exists, valid) ==
    LET edge == IF provider = "edge"
                THEN <<Call("voice.create_subtitle", [file |-> "subtitle.srt"])>>
                ELSE <<>>
        fallback == provider = "edge" /\ ~exists
        whisper == IF provider = "whisper" \/ fallback
                   THEN <<Call("subtitle.create", [file |-> "subtitle.srt"]),
                          Call("subtitle.correct", [file |-> "subtitle.srt"])>>
                   ELSE <<>>
        read == <<Call("subtitle.file_to_subtitles", [file |-> "subtitle.srt"])>>
    IN IF ~p.subtitle_enabled
       THEN [ops |-> <<>>, value |-> ""]
       ELSE [ops |-> edge \o whisper \o read,
             value |-> IF valid THEN "subtitle.srt" ELSE ""]

\* get_video_materials: found is what the provider returns. [ops, value].
get_video_materials(p, video_terms, audio_duration, found) ==
    LET calls == IF p.video_source = "local"
                 THEN <<Call("video.preprocess_video",
                             [clip_duration |-> p.video_clip_duration])>>
                 ELSE <<Call("material.download_videos",
                             [search_terms |-> video_terms,
                              video_contact_mode |-> p.video_concat_mode,
                              audio_duration |-> audio_duration * p.video_count,
                              max_clip_duration |-> p.video_clip_duration])>>
    IN IF found = <<>>
       THEN [ops |-> calls \o <<Upd([state |-> TaskFailed])>>, value |-> <<>>]
       ELSE [ops |-> calls, value |-> found]

\* ------------------------------------------------------------ start
LocalsInit ==
    [video_script |-> NoneStr, video_terms |-> <<>>, audio_file |-> NoneStr,
     audio_duration |-> 0, subtitle_path |-> "", downloaded_videos |-> <<>>,
     final_video_paths |-> <<>>, combined_video_paths |-> <<>>,
     video_concat_mode |-> "", progress |-> 0, i |-> 0]

\* VideoConcatMode(s), for a str params.video_concat_mode.
ConcatModeOf(s) ==
    CASE s = "random" -> ConcatRandom
      [] s = "sequential" -> ConcatSequential

\* A checkpoint test that misses the audio checkpoint.
StopHereSkipsAudio(stage) == stop_at = stage /\ stage # "audio"

\* start's checkpoint test: stop_at == "<stage>".
StopHere(stage) == stop_at = stage

\* A failure update that also writes progress = 0.
FailedUpdateResets == Upd([state |-> TaskFailed, progress |-> 0])

\* start's update after a stage has failed.
FailedUpdate == Upd([state |-> TaskFailed])

\* start, to its first stage: the record goes to Processing, progress 5.
StartTask ==
    /\ pc = "start"
    /\ params' = [params EXCEPT !.video_concat_mode = ConcatModeOf(@)]
    /\ Commit(<<Upd([state |-> TaskProcessing, progress |-> Pct(5)])>>)
    /\ pc' = "script"
    /\ UNCHANGED <<stop_at, result, locals, files>>
    /\ UNCHANGED <<cvVars, textVars>>

\* The test without its error-marker half, and without its emptiness half.
ScriptFailedNoMarker(video_script) == Falsy(video_script)
ScriptFailedOnlyMarker(video_script) ==
    ~Falsy(video_script) /\ HasErrorMarker(video_script)

\* start's test of the script stage's result.
ScriptFailed(video_script) == Falsy(video_script) \/ HasErrorMarker(video_script)

\* Stage 1 and its checkpoint.
ScriptStage ==
    /\ pc = "script"
    /\ \E llm_out \in LlmScripts :
        LET g == generate_script(params, llm_out)
            video_script == g.value
            ops == g.ops \o <<Ret("generate_script", video_script)>>
            l == [locals EXCEPT !.video_script = video_script]
            p10 == Upd([state |-> TaskProcessing, progress |-> Pct(10)])
        IN IF ScriptFailed(video_script)
           THEN Return(ops \o <<FailedUpdate>>, ResultNone, l)
           ELSE IF StopHere("script")
           THEN Return(ops \o <<p10, Upd([state |-> TaskComplete,
                                          progress |-> Pct(100),
                                          script |-> video_script])>>,
                       ResultDict([script |-> video_script]), l)
           ELSE Goto("terms", ops \o <<p10>>, l)

\* Terms asked for whatever the source of the materials is.
NeedsTermsAlways(p) == TRUE

\* `if params.video_source != "local"`: terms are only generated for a search.
NeedsTerms(p) == p.video_source # "local"

\* Stage 2 (skipped for local materials), save_script_data, its checkpoint.
TermsStage ==
    /\ pc = "terms"
    /\ \E llm_out \in LlmTerms :
        LET online == NeedsTerms(params)
            g == IF online
                 THEN generate_terms(params, locals.video_script, llm_out)
                 ELSE [ops |-> <<>>, value |-> <<>>]
            video_terms == g.value
            ops == IF online
                   THEN g.ops \o <<Ret("generate_terms", video_terms)>>
                   ELSE <<>>
            l == [locals EXCEPT !.video_terms = video_terms]
            save == <<Call("save_script_data", [file |-> "script.json"])>>
        IN IF online /\ video_terms = <<>>
           THEN Return(ops \o <<FailedUpdate>>, ResultNone, l)
           ELSE IF StopHere("terms")
           THEN Return(ops \o save \o <<Upd([state |-> TaskComplete,
                                             progress |-> Pct(100),
                                             terms |-> video_terms])>>,
                       ResultDict([script |-> locals.video_script,
                                   terms |-> video_terms]), l)
           ELSE Goto("audio", ops \o save
                       \o <<Upd([state |-> TaskProcessing, progress |-> Pct(20)])>>, l)

\* Stage 3 and its checkpoint.
AudioStage ==
    /\ pc = "audio"
    /\ \E tts_out \in 0..MaxAudioDuration :
        LET g == generate_audio(params, locals.video_script, tts_out)
            ops == g.ops \o <<Ret("generate_audio", g.audio_file)>>
            l == [locals EXCEPT !.audio_file = g.audio_file,
                                !.audio_duration = g.audio_duration]
            p30 == Upd([state |-> TaskProcessing, progress |-> Pct(30)])
        IN IF Falsy(g.audio_file)
           THEN Return(ops \o <<FailedUpdate>>, ResultNone, l)
           ELSE IF StopHere("audio")
           THEN Return(ops \o <<p30, Upd([state |-> TaskComplete,
                                          progress |-> Pct(100),
                                          audio_file |-> g.audio_file])>>,
                       ResultDict([audio_file |-> g.audio_file,
                                   audio_duration |-> g.audio_duration]), l)
           ELSE Goto("subtitle", ops \o <<p30>>, l)

\* Stage 4 and its checkpoint: an empty subtitle path is no failure.
SubtitleStage ==
    /\ pc = "subtitle"
    /\ \E provider \in {"edge", "whisper"}, exists \in BOOLEAN, valid \in BOOLEAN :
        LET g == generate_subtitle(params, provider, exists, valid)
            subtitle_path == g.value
            ops == g.ops \o <<Ret("generate_subtitle", subtitle_path)>>
            l == [locals EXCEPT !.subtitle_path = subtitle_path]
        IN IF StopHere("subtitle")
           THEN Return(ops \o <<Upd([state |-> TaskComplete,
                                     progress |-> Pct(100),
                                     subtitle_path |-> subtitle_path])>>,
                       ResultDict([subtitle_path |-> subtitle_path]), l)
           ELSE Goto("materials", ops
                       \o <<Upd([state |-> TaskProcessing, progress |-> Pct(40)])>>, l)

\* Stage 5 and its checkpoint.
MaterialsStage ==
    /\ pc = "materials"
    /\ \E found \in MaterialLists :
        LET g == get_video_materials(params, locals.video_terms,
                                     locals.audio_duration, found)
            downloaded_videos == g.value
            ops == g.ops \o <<Ret("get_video_materials", downloaded_videos)>>
            l == [locals EXCEPT !.downloaded_videos = downloaded_videos]
        IN IF downloaded_videos = <<>>
           THEN Return(ops \o <<FailedUpdate>>, ResultNone, l)
           ELSE IF StopHere("materials")
           THEN Return(ops \o <<Upd([state |-> TaskComplete,
                                     progress |-> Pct(100),
                                     materials |-> downloaded_videos])>>,
                       ResultDict([materials |-> downloaded_videos]), l)
           ELSE Goto("video", ops
                       \o <<Upd([state |-> TaskProcessing, progress |-> Pct(50)])>>, l)

\* ------------------------------------------------------------ video stage
\* path.join(task_dir, f"combined-{index}.mp4") and f"final-{index}.mp4".
CombinedName(index) == <<"combined-", index, ".mp4">>
\* The final artifact named after the loop variable i, not index = i + 1.
FinalNameFromZero(index) == <<"final-", index - 1, ".mp4">>
FinalName(index) == <<"final-", index, ".mp4">>

\* combine_videos reads video_transition_mode.value for every segment: with
\* the mode unset (None) that raises, so the call cannot return.
TransitionRaises(mode) == mode = TransitionUnset

\* generate_final_videos, to its loop.
BeginFinalVideos ==
    /\ pc = "video"
    /\ Goto(IF 0 < params.video_count THEN "combine" ELSE "finish", <<>>,
            [locals EXCEPT !.final_video_paths = <<>>,
                           !.combined_video_paths = <<>>,
                           !.video_concat_mode =
                               IF params.video_count = 1
                               THEN params.video_concat_mode ELSE ConcatRandom,
                           !.progress = Pct(50),
                           !.i = 0])

\* A step of 50 / video_count, the division by 2 left out.
ProgressStepPerVideo(video_count) == Pct(50) \div video_count

\* 50 / params.video_count / 2: what each combine and each render adds.
ProgressStep(video_count) == (Pct(50) \div video_count) \div 2

\* One pass of the loop, to the progress update after video.combine_videos.
CombineStep ==
    /\ pc = "combine"
    /\ LET index == locals.i + 1
           call == <<Call("video.combine_videos",
                          [combined_video_path |-> CombinedName(index),
                           video_paths |-> locals.downloaded_videos,
                           video_concat_mode |-> locals.video_concat_mode,
                           video_transition_mode |-> params.video_transition_mode,
                           max_clip_duration |-> params.video_clip_duration])>>
           progress == locals.progress + ProgressStep(params.video_count)
       IN \/ /\ ~TransitionRaises(params.video_transition_mode)
             /\ Goto("render", call \o <<Upd([progress |-> progress])>>,
                     [locals EXCEPT !.progress = progress])
          \/ Raise(call, locals)

\* VideoParams' default font_name.
DefaultFont == "STHeitiMedium.ttc"
\* The disk as the defaults meet it: no configured track, one song to pick,
\* and it decodes.
DefaultFiles == [bgm_exists |-> FALSE, songs |-> 1, bgm_decodes |-> TRUE]

\* int(x), for x >= 0 kept in tenths.
IntOf(tenths) == (tenths \div 10) * 10

\* get_bgm_file: [raised, value]. random.choice of an empty list raises
\* IndexError.
get_bgm_file(bgm_type, bgm_file, f) ==
    IF bgm_type = "" THEN [raised |-> FALSE, value |-> ""]
    ELSE IF bgm_file # "" /\ f.bgm_exists THEN [raised |-> FALSE, value |-> bgm_file]
    ELSE IF bgm_type = "random"
    THEN IF f.songs = 0 THEN [raised |-> TRUE, value |-> ""]
         ELSE [raised |-> FALSE, value |-> "song.mp3"]
    ELSE [raised |-> FALSE, value |-> ""]

\* The try block of generate_video: the track is mixed in unless preparing it
\* raises, which is caught.
BgmMixed(bgm_file, f) == bgm_file # "" /\ f.bgm_decodes

\* Subtitles overlaid whatever the subtitle path is.
HasSubtitlesAlways(subtitle_path) == TRUE

\* `if subtitle_path and os.path.exists(subtitle_path)`: the file a non-empty
\* path names is the one generate_subtitle has just parsed.
HasSubtitles(subtitle_path) == subtitle_path # ""

\* generate_video, to its write: the params object as it leaves it, the
\* exception that escapes it if any, the audio of the video and whether
\* subtitle clips are overlaid.
generate_video(p, subtitle_path, f) ==
    LET p1 == IF p.subtitle_enabled /\ p.font_name = ""
              THEN [p EXCEPT !.font_name = DefaultFont] ELSE p
        overlays == HasSubtitles(subtitle_path)
        p2 == IF overlays
              THEN [p1 EXCEPT !.font_size = @, !.stroke_width = IntOf(@)]
              ELSE p1
        bgm == get_bgm_file(p2.bgm_type, p2.bgm_file, f)
    IN [params |-> p2,
        error |-> IF bgm.raised THEN "IndexError" ELSE "",
        audio |-> IF BgmMixed(bgm.value, f) THEN "voice+bgm" ELSE "voice",
        overlays |-> overlays,
        bgm_failed |-> /\ p2.bgm_type # ""
                       /\ \/ bgm.raised
                          \/ p2.bgm_file # "" /\ ~f.bgm_exists
                          \/ bgm.value # "" /\ ~f.bgm_decodes]

\* The rest of the pass: video.generate_video, the progress update, the lists.
RenderStep ==
    /\ pc = "render"
    /\ LET index == locals.i + 1
           g == generate_video(params, locals.subtitle_path, files)
           call == <<Call("video.generate_video",
                          [video_path |-> CombinedName(index),
                           subtitle_path |-> locals.subtitle_path,
                           output_file |-> FinalName(index)])>>
           progress == locals.progress + ProgressStep(params.video_count)
       IN /\ params' = g.params
          /\ \/ /\ g.error = ""
                /\ Commit(call
                          \o <<Ret("video.generate_video",
                                   [audio |-> g.audio, overlays |-> g.overlays,
                                    bgm_failed |-> g.bgm_failed]),
                               Upd([progress |-> progress])>>)
                /\ pc' = IF index < params.video_count THEN "combine" ELSE "finish"
                /\ result' = result
                /\ locals' = [locals EXCEPT
                     !.progress = progress,
                     !.final_video_paths = Append(@, FinalName(index)),
                     !.combined_video_paths = Append(@, CombinedName(index)),
                     !.i = index]
             \/ /\ Commit(call
                          \o <<Exc("video.generate_video",
                                   IF g.error = "" THEN "write failed" ELSE g.error)>>)
                /\ pc' = "raised"
                /\ result' = [kind |-> "raised"]
                /\ locals' = locals
    /\ UNCHANGED <<stop_at, files>>
    /\ UNCHANGED <<cvVars, textVars>>

\* start, after generate_final_videos has returned.
FinishStage ==
    /\ pc = "finish"
    /\ LET kwargs == [videos |-> locals.final_video_paths,
                      combined_videos |-> locals.combined_video_paths,
                      script |-> locals.video_script,
                      terms |-> locals.video_terms,
                      audio_file |-> locals.audio_file,
                      audio_duration |-> locals.audio_duration,
                      subtitle_path |-> locals.subtitle_path,
                      materials |-> locals.downloaded_videos]
           ret == <<Ret("generate_final_videos", locals.final_video_paths)>>
       IN IF locals.final_video_paths = <<>>
          THEN Return(ret \o <<FailedUpdate>>, ResultNone, locals)
          ELSE Return(ret \o <<Upd([state |-> TaskComplete,
                                    progress |-> Pct(100),
                                    videos |-> kwargs.videos,
                                    combined_videos |-> kwargs.combined_videos,
                                    script |-> kwargs.script,
                                    terms |-> kwargs.terms,
                                    audio_file |-> kwargs.audio_file,
                                    audio_duration |-> kwargs.audio_duration,
                                    subtitle_path |-> kwargs.subtitle_path,
                                    materials |-> kwargs.materials])>>,
                      ResultDict(kwargs), locals)

\* ------------------------------------------------------------ Spec
\* combine_videos' variables, at rest while start is the program modelled.
CvIdle ==
    /\ cv_in = [video_paths |-> <<>>, audio_duration |-> 0,
                max_clip_duration |-> 1, video_aspect |-> "9:16",
                video_concat_mode |-> ConcatRandom,
                video_transition_mode |-> TransitionNone]
    /\ cv_pc = "idle"
    /\ raw_clips = <<>>
    /\ clips = <<>>
    /\ video_duration = 0
    /\ cv_loop = [path |-> 0, start_time |-> 0, pool |-> 0,
                  effect |-> "", error |-> ""]

\* No text clip placed yet.
NoClip == [h |-> 0, video_height |-> 0, subtitle_position |-> "",
           custom_position |-> 0, y |-> Unset]

\* wrap_text's variables, at rest while another function is the program modelled.
TextIdle ==
    /\ wt_in = [text |-> <<>>, max_width |-> 0]
    /\ wt_pc = "idle"
    /\ wt = [words |-> <<>>, i |-> 0, txt |-> <<>>, lines |-> <<>>,
             processed |-> TRUE, result |-> <<>>, height |-> 0, mode |-> "", clip |-> NoClip]

ParamsSet ==
    [video_script : ScriptInputs,
     video_terms : TermInputs,
     video_source : {"pexels", "local"},
     video_count : 0..MaxVideoCount,
     video_concat_mode : {"random", "sequential"},
     video_transition_mode : {TransitionUnset, TransitionNone, "Shuffle"},
     video_clip_duration : {5},
     subtitle_enabled : BOOLEAN,
     bgm_type : {"random"},
     bgm_file : {""},
     font_name : {DefaultFont},
     font_size : {60},
     stroke_width : {15}]

Init ==
    /\ params \in ParamsSet
    /\ stop_at \in StageNames
    /\ pc = "start"
    /\ task = NewTask
    /\ events = <<>>
    /\ result = ResultPending
    /\ locals = LocalsInit
    /\ files = DefaultFiles
    /\ CvIdle
    /\ TextIdle

Next ==
    \/ StartTask
    \/ ScriptStage
    \/ TermsStage
    \/ AudioStage
    \/ SubtitleStage
    \/ MaterialsStage
    \/ BeginFinalVideos
    \/ CombineStep
    \/ RenderStep
    \/ FinishStage

Spec == Init /\ [][Next]_vars

\* ------------------------------------------------------------ claims on start
StageOrder(stage) ==
    CASE stage = "script" -> 1
      [] stage = "terms" -> 2
      [] stage = "audio" -> 3
      [] stage = "subtitle" -> 4
      [] stage = "materials" -> 5
      [] stage = "video" -> 6

\* The stage a collaborator call belongs to.
StageOfCall(name) ==
    CASE name = "llm.generate_script" -> "script"
      [] name \in {"llm.generate_terms", "save_script_data"} -> "terms"
      [] name = "voice.tts" -> "audio"
      [] name \in {"voice.create_subtitle", "subtitle.create", "subtitle.correct",
                   "subtitle.file_to_subtitles"} -> "subtitle"
      [] name \in {"material.download_videos", "video.preprocess_video"} -> "materials"
      [] name \in {"video.combine_videos", "video.generate_video"} -> "video"

\* The stage that produces an output key.
StageOfKey(key) ==
    CASE key = "script" -> "script"
      [] key = "terms" -> "terms"
      [] key \in {"audio_file", "audio_duration"} -> "audio"
      [] key = "subtitle_path" -> "subtitle"
      [] key = "materials" -> "materials"
      [] key \in {"videos", "combined_videos"} -> "video"

\* The stage start is in, or about to enter.
StageOfPc ==
    CASE pc \in {"start", "script"} -> "script"
      [] pc = "terms" -> "terms"
      [] pc = "audio" -> "audio"
      [] pc = "subtitle" -> "subtitle"
      [] pc = "materials" -> "materials"
      [] pc \in {"video", "combine", "render", "finish"} -> "video"

\* A stage function has returned a failure to start: an empty or None result,
\* or a script carrying the error marker.
StageReportsFailure(e) ==
    /\ e.kind = "return"
    /\ \/ /\ e.name = "generate_script"
          /\ (e.value \in {"", NoneStr} \/ e.value = "Error: quota exceeded")
       \/ /\ e.name = "generate_terms"
          /\ e.value = <<>>
       \/ /\ e.name = "generate_audio"
          /\ e.value \in {"", NoneStr}
       \/ /\ e.name = "get_video_materials"
          /\ e.value = <<>>

IsFailedOnlyUpdate(e) ==
    /\ e.kind = "update"
    /\ DOMAIN e.fields = {"state"}
    /\ e.fields.state = TaskFailed

\* C1: when the script, terms, audio or materials stage reports failure, the
\* task's state is Failed, start has returned no result, and nothing follows
\* the failure but updates that write state Failed alone: no collaborator
\* call, no progress update, no Complete update.
C1_StageFailureHalts ==
    \A i \in 1..Len(events) :
        StageReportsFailure(events[i]) =>
            /\ pc = "done"
            /\ result = ResultNone
            /\ task.state = TaskFailed
            /\ \A j \in (i + 1)..Len(events) : IsFailedOnlyUpdate(events[j])

\* A run in which the materials stage has failed, after four stages ran.
C1_Witness ==
    \E i \in 1..Len(events) :
        /\ StageReportsFailure(events[i])
        /\ events[i].name = "get_video_materials"

\* C2: a failure inside the video stage leaves the task Failed, never
\* Processing.
C2_VideoFailureMarksFailed ==
    pc = "raised" => task.state = TaskFailed

NoStageFailed ==
    \A i \in 1..Len(events) :
        /\ ~StageReportsFailure(events[i])
        /\ ~(events[i].kind = "return" /\ events[i].name = "generate_final_videos"
             /\ events[i].value = <<>>)

\* C3: start never runs a stage after the stop_at stage, and once it has
\* returned with every stage up to stop_at successful, the record is Complete
\* with progress 100 and the result holds outputs of stages up to stop_at only.
C3_StopAtCheckpoint ==
    /\ pc \notin {"done", "raised"} => StageOrder(StageOfPc) <= StageOrder(stop_at)
    /\ \A i \in 1..Len(events) :
          events[i].kind = "call" =>
              StageOrder(StageOfCall(events[i].name)) <= StageOrder(stop_at)
    /\ (pc = "done" /\ NoStageFailed) =>
          /\ task.state = TaskComplete
          /\ task.progress = Pct(100)
          /\ result.kind = "dict"
          /\ \A k \in DOMAIN result.value :
                StageOrder(StageOfKey(k)) <= StageOrder(stop_at)

\* A run stopped at the audio checkpoint with a result.
C3_Witness ==
    /\ pc = "done"
    /\ stop_at = "audio"
    /\ result.kind = "dict"
    /\ NoStageFailed

UpdateIndexes == {i \in 1..Len(events) : events[i].kind = "update"}

C5_HundredOnlyWhenTerminal ==
    task.progress = Pct(100) => task.state \in {TaskComplete, TaskFailed}

\* C6: once an update has written Complete or Failed, every later update of
\* the run leaves the record (state, progress, outputs) as it was.
C6_TerminalIsFinal ==
    \A i, j \in UpdateIndexes :
        (i < j /\ events[i].after.state \in {TaskComplete, TaskFailed}) =>
            events[j].after = events[i].after

\* Failed written twice: by generate_script, then by start.
C6_Witness ==
    \E i, j \in UpdateIndexes :
        /\ i < j
        /\ events[i].after.state = TaskFailed
        /\ events[j].after.state = TaskFailed

\* ------------------------------------------------------------ combine_videos
\* Bounds on the media combine_videos is given, in ticks and counts.
MaxPaths == 2
MaxClipDuration == 3
MaxTarget == 3
MaxClipLimit == 2
\* Largest pool the source clips drawn may split into.
MaxPool == 3

Min(a, b) == IF a <= b THEN a ELSE b

\* VideoAspect.to_resolution.
to_resolution(aspect) ==
    IF aspect = "16:9" THEN <<1920, 1080>>
    ELSE IF aspect = "9:16" THEN <<1080, 1920>>
    ELSE IF aspect = "1:1" THEN <<1080, 1080>>
    ELSE <<1080, 1920>>

\* clip.subclipped(start_time, end_time) of the media library: the window
\* [start_time, end_time) of clip, of duration end_time - start_time.
subclipped(clip, start_time, end_time) ==
    [clip EXCEPT !.start = clip.start + start_time,
                 !.duration = end_time - start_time]

\* VideoFileClip(video_path).without_audio(): the whole source clip.
SourceClip(n) ==
    [src |-> n, start |-> 0, duration |-> cv_in.video_paths[n].duration,
     size |-> cv_in.video_paths[n].size,
     content |-> cv_in.video_paths[n].size, fit |-> "native"]

\* A window cut to the end of the clip, whatever max_clip_duration is.
WindowEndWholeClip(start_time, max_clip_duration, clip_duration) == clip_duration

\* A window that ends where it starts: the splitting loop does not advance.
WindowEndAtStart(start_time, max_clip_duration, clip_duration) == start_time

\* A window always max_clip_duration long, past the end of the clip or not.
WindowEndNoMin(start_time, max_clip_duration, clip_duration) ==
    start_time + max_clip_duration

\* The end of the window cut at start_time.
WindowEnd(start_time, max_clip_duration, clip_duration) ==
    Min(start_time + max_clip_duration, clip_duration)

\* The operands <<n, t, d>>, among the sizes drawn below, for which the double
\* product n * (t / d) is rounded to just below the integer n * t / d: the
\* quotient 1920 / 854 is rounded down to 53 bits, and 854 times it is
\* 1919.9999999999998.
RoundsBelow == {<<854, 1920, 854>>}

\* int(n * scale_factor) with scale_factor = t / d, in the double arithmetic
\* of the code: the quotient is rounded, the product is rounded, int truncates.
FloatTruncated(n, t, d) ==
    ((n * t) \div d) - (IF <<n, t, d>> \in RoundsBelow THEN 1 ELSE 0)

\* The picture scaled to fit inside the frame: (new_width, new_height).
ScaledToFit(clip_w, clip_h, video_width, video_height) ==
    IF clip_w * video_height > video_width * clip_h
    THEN <<FloatTruncated(clip_w, video_width, clip_w),
           FloatTruncated(clip_h, video_width, clip_w)>>
    ELSE <<FloatTruncated(clip_w, video_height, clip_h),
           FloatTruncated(clip_h, video_height, clip_h)>>

\* A letterbox step that leaves out the background: the frame is the scaled
\* picture.
NormalizeNoBackground(clip, video_width, video_height) ==
    LET clip_w == clip.size[1]
        clip_h == clip.size[2]
        scaled == ScaledToFit(clip_w, clip_h, video_width, video_height)
    IN IF clip_w # video_width \/ clip_h # video_height
       THEN IF clip_w * video_height = video_width * clip_h
            THEN [clip EXCEPT !.size = <<video_width, video_height>>,
                              !.content = <<video_width, video_height>>,
                              !.fit = "resized"]
            ELSE [clip EXCEPT !.size = scaled, !.content = scaled,
                              !.fit = "letterbox"]
       ELSE clip

\* The resize / letterbox step: the clip's frame size after it, the size of
\* the picture inside the frame, and how the picture was fitted. The frame of
\* a CompositeVideoClip is that of its first clip, the background.
Normalize(clip, video_width, video_height) ==
    LET clip_w == clip.size[1]
        clip_h == clip.size[2]
        background == [size |-> <<video_width, video_height>>]
    IN IF clip_w # video_width \/ clip_h # video_height
       THEN IF clip_w * video_height = video_width * clip_h
            THEN [clip EXCEPT !.size = <<video_width, video_height>>,
                              !.content = <<video_width, video_height>>,
                              !.fit = "resized"]
            ELSE [clip EXCEPT !.size = background.size,
                              !.content = ScaledToFit(clip_w, clip_h,
                                                      video_width, video_height),
                              !.fit = "letterbox"]
       ELSE clip

\* The trim without its remaining-duration branch.
TrimNoRemainder(clip, audio_duration, done, req_dur) ==
    IF req_dur < clip.duration THEN subclipped(clip, 0, req_dur) ELSE clip

\* The trim at the head of the packing loop's body.
TrimForPacking(clip, audio_duration, done, req_dur) ==
    IF audio_duration - done < clip.duration
    THEN subclipped(clip, 0, audio_duration - done)
    ELSE IF req_dur < clip.duration
    THEN subclipped(clip, 0, req_dur)
    ELSE clip

\* The clamp before the append.
FinalClamp(clip, max_clip_duration) ==
    IF clip.duration > max_clip_duration
    THEN subclipped(clip, 0, max_clip_duration)
    ELSE clip

\* The effects a transition mode may apply to one segment.
EffectsOf(mode) ==
    CASE mode = "None" -> {"none"}
      [] mode = "FadeIn" -> {"fadein"}
      [] mode = "FadeOut" -> {"fadeout"}
      [] mode = "SlideIn" -> {"slidein"}
      [] mode = "SlideOut" -> {"slideout"}
      [] mode = "Shuffle" -> {"fadein", "fadeout", "slidein", "slideout"}
      [] OTHER -> {"none"}

\* video_effects.*_transition(clip, 1, ...): the effect plays inside the
\* segment; the segment's duration and size are kept. The side drawn per
\* segment (shuffle_side) only gives a slide its direction.
ApplyTransition(clip, effect) == clip

CvRaise(error) ==
    /\ cv_pc' = "raised"
    /\ cv_loop' = [cv_loop EXCEPT !.error = error]

\* To the loop over video_paths: the audio's duration, req_dur, the lists.
CvBegin ==
    /\ cv_pc = "begin"
    /\ IF Len(cv_in.video_paths) = 0
       THEN CvRaise("ZeroDivisionError")
       ELSE /\ cv_pc' = "for_paths"
            /\ cv_loop' = [cv_loop EXCEPT !.path = 1, !.start_time = 0]
    /\ UNCHANGED <<cv_in, raw_clips, clips, video_duration>>
    /\ UNCHANGED <<orchVars, textVars>>

\* One pass of the splitting loop, or its end for the current source clip.
CvSplitWindow ==
    /\ cv_pc = "for_paths"
    /\ cv_loop.path <= Len(cv_in.video_paths)
    /\ LET clip == SourceClip(cv_loop.path)
           start_time == cv_loop.start_time
           end_time == WindowEnd(start_time, cv_in.max_clip_duration, clip.duration)
       IN IF start_time < clip.duration
          THEN /\ raw_clips' = Append(raw_clips, subclipped(clip, start_time, end_time))
               /\ cv_loop' =
                    IF cv_in.video_concat_mode = ConcatSequential
                    THEN [cv_loop EXCEPT !.path = @ + 1, !.start_time = 0]
                    ELSE [cv_loop EXCEPT !.start_time = end_time]
          ELSE /\ raw_clips' = raw_clips
               /\ cv_loop' = [cv_loop EXCEPT !.path = @ + 1, !.start_time = 0]
    /\ UNCHANGED <<cv_in, cv_pc, clips, video_duration>>
    /\ UNCHANGED <<orchVars, textVars>>

\* random.shuffle(raw_clips) in random mode; then to the packing loop.
CvShuffle ==
    /\ cv_pc = "for_paths"
    /\ cv_loop.path > Len(cv_in.video_paths)
    /\ IF cv_in.video_concat_mode = ConcatRandom
       THEN \E f \in Permutations(1..Len(raw_clips)) :
               raw_clips' = [i \in 1..Len(raw_clips) |-> raw_clips[f[i]]]
       ELSE raw_clips' = raw_clips
    /\ cv_pc' = "pack_while"
    /\ UNCHANGED <<cv_in, clips, video_duration, cv_loop>>
    /\ UNCHANGED <<orchVars, textVars>>

\* The packing loop's test: while video_duration < audio_duration.
CvPackWhile ==
    /\ cv_pc = "pack_while"
    /\ IF video_duration < cv_in.audio_duration
       THEN /\ cv_pc' = "pack_for"
            /\ cv_loop' = [cv_loop EXCEPT !.pool = 1]
       ELSE /\ cv_pc' = "write"
            /\ cv_loop' = cv_loop
    /\ UNCHANGED <<cv_in, raw_clips, clips, video_duration>>
    /\ UNCHANGED <<orchVars, textVars>>

\* A for loop that goes through the pool from its end.
PoolElementFromEnd(pool, k) == pool[Len(pool) + 1 - k]

\* `for clip in raw_clips`: the k-th element the loop binds to clip.
PoolElement(pool, k) == pool[k]

\* The body of `for clip in raw_clips`, for one pool element.
CvPackSegment ==
    /\ cv_pc = "pack_for"
    /\ cv_loop.pool <= Len(raw_clips)
    /\ LET res == to_resolution(cv_in.video_aspect)
           trimmed == TrimForPacking(PoolElement(raw_clips, cv_loop.pool),
                                     cv_in.audio_duration,
                                     video_duration, cv_in.max_clip_duration)
           sized == Normalize(trimmed, res[1], res[2])
       IN IF TransitionRaises(cv_in.video_transition_mode)
          THEN /\ CvRaise("AttributeError")
               /\ UNCHANGED <<clips, video_duration>>
          ELSE \E effect \in EffectsOf(cv_in.video_transition_mode) :
                  LET clip == FinalClamp(ApplyTransition(sized, effect),
                                         cv_in.max_clip_duration)
                  IN /\ clips' = Append(clips, clip)
                     /\ video_duration' = video_duration + clip.duration
                     /\ cv_loop' = [cv_loop EXCEPT !.pool = @ + 1,
                                                   !.effect = effect]
                     /\ cv_pc' = cv_pc
    /\ UNCHANGED <<cv_in, raw_clips>>
    /\ UNCHANGED <<orchVars, textVars>>

\* The for loop has gone through the pool: back to the while test.
CvPackWrap ==
    /\ cv_pc = "pack_for"
    /\ cv_loop.pool > Len(raw_clips)
    /\ cv_pc' = "pack_while"
    /\ UNCHANGED <<cv_in, raw_clips, clips, video_duration, cv_loop>>
    /\ UNCHANGED <<orchVars, textVars>>

\* Concatenate and write the file; the write may fail.
CvWrite ==
    /\ cv_pc = "write"
    /\ \/ /\ cv_pc' = "done"
          /\ cv_loop' = cv_loop
       \/ CvRaise("write failed")
    /\ UNCHANGED <<cv_in, raw_clips, clips, video_duration>>
    /\ UNCHANGED <<orchVars, textVars>>

\* ------------------------------------------------------------ SpecCombine
\* start's variables, at rest while combine_videos is the program modelled.
OrchIdle ==
    /\ params = [video_script |-> "", video_terms |-> <<>>,
                 video_source |-> "pexels", video_count |-> 1,
                 video_concat_mode |-> ConcatRandom,
                 video_transition_mode |-> TransitionUnset,
                 video_clip_duration |-> 5, subtitle_enabled |-> TRUE,
                 bgm_type |-> "random", bgm_file |-> "",
                 font_name |-> DefaultFont, font_size |-> 60,
                 stroke_width |-> 15]
    /\ files = DefaultFiles
    /\ stop_at = "video"
    /\ pc = "idle"
    /\ task = NewTask
    /\ events = <<>>
    /\ result = ResultPending
    /\ locals = LocalsInit

ClipSizes == {<<1080, 1920>>}
SourceClips == [duration : 0..MaxClipDuration, size : ClipSizes]
PathLists == UNION {[1..n -> SourceClips] : n \in 0..MaxPaths}

\* The number of windows a clip of duration d splits into.
WindowCount(d, m, mode) ==
    IF d = 0 THEN 0
    ELSE IF mode = ConcatSequential THEN 1
    ELSE (d + m - 1) \div m

RECURSIVE PoolSize(_, _, _)
PoolSize(paths, m, mode) ==
    IF paths = <<>> THEN 0
    ELSE WindowCount(Head(paths).duration, m, mode) + PoolSize(Tail(paths), m, mode)

CombineInputs ==
    {c \in [video_paths : PathLists,
            audio_duration : 1..MaxTarget,
            max_clip_duration : 1..MaxClipLimit,
            video_aspect : {"9:16", "16:9"},
            video_concat_mode : {ConcatRandom, ConcatSequential},
            video_transition_mode : {TransitionUnset, "None", "Shuffle"}] :
        PoolSize(c.video_paths, c.max_clip_duration, c.video_concat_mode) <= MaxPool}

InitCombine ==
    /\ OrchIdle
    /\ TextIdle
    /\ cv_in \in CombineInputs
    /\ cv_pc = "begin"
    /\ raw_clips = <<>>
    /\ clips = <<>>
    /\ video_duration = 0
    /\ cv_loop = [path |-> 0, start_time |-> 0, pool |-> 0,
                  effect |-> "", error |-> ""]

NextCombine ==
    \/ CvBegin
    \/ CvSplitWindow
    \/ CvShuffle
    \/ CvPackWhile
    \/ CvPackSegment
    \/ CvPackWrap
    \/ CvWrite

SpecCombine == InitCombine /\ [][NextCombine]_vars

\* ------------------------------------------------------------ claims on combine_videos
RECURSIVE SumDuration(_)
SumDuration(cs) ==
    IF cs = <<>> THEN 0 ELSE Head(cs).duration + SumDuration(Tail(cs))

\* The packing loop has been left.
Packed == cv_pc \in {"write", "done"} \/ (cv_pc = "raised" /\ cv_loop.error = "write failed")

\* C7: when the packing loop is left, the durations of the segments appended
\* to the output sequence add up to the target (audio) duration exactly.
C7_PackedTotalIsTarget ==
    Packed =>
        /\ SumDuration(clips) = cv_in.audio_duration
        /\ video_duration = cv_in.audio_duration

\* A finished run whose pool was gone through more than once and whose last
\* segment with a duration was trimmed.
C7_Witness ==
    /\ cv_pc = "done"
    /\ Len(raw_clips) >= 1
    /\ Len(clips) > Len(raw_clips)
    /\ \E i \in 1..Len(clips) :
          /\ clips[i].duration > 0
          /\ clips[i].duration < raw_clips[((i - 1) % Len(raw_clips)) + 1].duration

\* C8: the segment that brings the total to the target is the last of the
\* packed sequence, and every packed segment has a duration > 0.
C8_PackerStopsAtTrim ==
    /\ \A i \in 1..Len(clips) : clips[i].duration > 0
    /\ \A i \in 1..Len(clips) :
          SumDuration(SubSeq(clips, 1, i)) = cv_in.audio_duration => i = Len(clips)

\* C9: with an empty pool and a target > 0 combine_videos fails before it
\* packs: it is never inside its packing loop, and never at its output.
C9_EmptyPoolFailsFast ==
    (raw_clips = <<>> /\ cv_in.audio_duration > 0) =>
        cv_pc \notin {"pack_for", "write", "done"}

\* C10: every window in the pool and every segment of the packed sequence has
\* a duration <= max_clip_duration.
C10_NoSegmentExceedsMax ==
    /\ \A i \in 1..Len(raw_clips) : raw_clips[i].duration <= cv_in.max_clip_duration
    /\ \A i \in 1..Len(clips) : clips[i].duration <= cv_in.max_clip_duration

\* A finished run over a source clip longer than max_clip_duration.
C10_Witness ==
    /\ cv_pc = "done"
    /\ Len(clips) >= 2
    /\ \E n \in 1..Len(cv_in.video_paths) :
          cv_in.video_paths[n].duration > cv_in.max_clip_duration

\* ------------------------------------------------------------ claims on the pool
\* The pool is built (and, in random mode, shuffled).
PoolReady == cv_pc \in {"pack_while", "pack_for", "write", "done"}

\* Window k (from 0) of source clip n, as the splitting rule defines it.
WindowOf(n, k) ==
    LET d == cv_in.video_paths[n].duration
        m == cv_in.max_clip_duration
    IN [src |-> n, start |-> k * m, duration |-> Min(m, d - k * m),
        size |-> cv_in.video_paths[n].size,
        content |-> cv_in.video_paths[n].size, fit |-> "native"]

\* All windows of all source clips.
AllWindows ==
    {WindowOf(n, k) : n \in 1..Len(cv_in.video_paths), k \in 0..(MaxClipDuration + 1)}

WindowsOfSources ==
    {w \in AllWindows : w.start < cv_in.video_paths[w.src].duration}

Count(x, s) == Cardinality({i \in 1..Len(s) : s[i] = x})

\* The pool holds, as a multiset, exactly all windows of all source clips.
PoolIsAllWindows ==
    /\ Len(raw_clips) = Cardinality(WindowsOfSources)
    /\ \A w \in WindowsOfSources : Count(w, raw_clips) = 1

\* The source clips that have a first window, in source order.
SourcesWithWindow ==
    SelectSeq([n \in 1..Len(cv_in.video_paths) |-> n],
              LAMBDA n : cv_in.video_paths[n].duration > 0)

\* C11 as stated: sequential mode leaves one segment per source clip, its
\* first window, in source order; random mode leaves all windows of all source
\* clips as a multiset.
C11_PoolByConcatModeAsStated ==
    PoolReady =>
        IF cv_in.video_concat_mode = ConcatSequential
        THEN /\ Len(raw_clips) = Len(cv_in.video_paths)
             /\ \A n \in 1..Len(raw_clips) : raw_clips[n] = WindowOf(n, 0)
        ELSE PoolIsAllWindows

\* C11 amended: sequential mode leaves the first window of every source clip
\* of duration > 0, in source order, and nothing for a clip of duration 0;
\* random mode leaves all windows of all source clips as a multiset.
C11_PoolByConcatMode ==
    PoolReady =>
        IF cv_in.video_concat_mode = ConcatSequential
        THEN raw_clips = [i \in 1..Len(SourcesWithWindow) |->
                              WindowOf(SourcesWithWindow[i], 0)]
        ELSE PoolIsAllWindows

\* A sequential pool over a clip of duration 0 and a clip longer than a window.
C11_Witness ==
    /\ PoolReady
    /\ cv_in.video_concat_mode = ConcatSequential
    /\ Len(raw_clips) = 1
    /\ Len(cv_in.video_paths) = 2
    /\ cv_in.video_paths[1].duration = 0
    /\ cv_in.video_paths[2].duration > cv_in.max_clip_duration

\* ------------------------------------------------------------ wrap_text
\* Bounds on the subtitle text: its length in characters, and max_width.
MaxTextLen == 5
MaxWidth == 3

\* The characters drawn: a space, a narrow glyph and a wide glyph. The line
\* break is the character wrap_text joins lines with.
LineBreak == "\n"
Chars == {" ", "a", "W"}
\* str.isspace(), on the characters of the model.
IsSpace(c) == c \in {" ", LineBreak}

\* The advance of one glyph: font.getbbox of a string is taken as the sum of
\* its glyphs' advances.
CharWidth(c) == IF c = "W" THEN 2 ELSE IF c = LineBreak THEN 0 ELSE 1

RECURSIVE lstrip(_)
lstrip(s) == IF s # <<>> /\ IsSpace(Head(s)) THEN lstrip(Tail(s)) ELSE s
RECURSIVE rstrip(_)
rstrip(s) ==
    IF s # <<>> /\ IsSpace(s[Len(s)]) THEN rstrip(SubSeq(s, 1, Len(s) - 1)) ELSE s
\* str.strip()
strip(s) == rstrip(lstrip(s))

RECURSIVE Width(_)
Width(s) == IF s = <<>> THEN 0 ELSE CharWidth(Head(s)) + Width(Tail(s))

\* get_text_size(inner_text)[0]: the width of the stripped text.
get_text_size(inner_text) == Width(strip(inner_text))

\* str.split(sep): the pieces between the separators, empty pieces included.
RECURSIVE split(_, _)
split(s, sep) ==
    IF \A k \in 1..Len(s) : s[k] # sep THEN <<s>>
    ELSE LET k == CHOOSE j \in 1..Len(s) :
                      s[j] = sep /\ \A h \in 1..(j - 1) : s[h] # sep
         IN <<SubSeq(s, 1, k - 1)>> \o split(SubSeq(s, k + 1, Len(s)), sep)

\* sep.join(lines)
RECURSIVE join(_, _)
join(lines, sep) ==
    IF lines = <<>> THEN <<>>
    ELSE IF Len(lines) = 1 THEN lines[1]
    ELSE lines[1] \o <<sep>> \o join(Tail(lines), sep)

\* [line.strip() for line in lines]
StripEach(lines) == [k \in 1..Len(lines) |-> strip(lines[k])]

WtFrame == UNCHANGED <<orchVars, cvVars, wt_in>>

\* The text measured whole: returned as it is when it fits.
WtBegin ==
    /\ wt_pc = "begin"
    /\ IF get_text_size(wt_in.text) <= wt_in.max_width
       THEN /\ wt_pc' = "done"
            /\ wt' = [wt EXCEPT !.result = wt_in.text,
                                !.height = wt_in.line_height,
                                !.mode = "whole"]
       ELSE /\ wt_pc' = "words"
            /\ wt' = [wt EXCEPT !.words = split(wt_in.text, " "), !.i = 1,
                                !.txt = <<>>, !.lines = <<>>,
                                !.processed = TRUE]
    /\ WtFrame

\* A line closed with the word that overflowed it still on it.
ClosedLineWithOverflow(before, txt) == txt

\* _wrapped_lines_.append(_before): the line closed when a word overflows it
\* is the text as it was before that word.
ClosedLine(before, txt) == before

\* One pass of `for word in words`.
WtWord ==
    /\ wt_pc = "words"
    /\ wt.processed
    /\ wt.i <= Len(wt.words)
    /\ LET word == wt.words[wt.i]
           before == wt.txt
           txt == wt.txt \o word \o <<" ">>
       IN wt' = IF get_text_size(txt) <= wt_in.max_width
                THEN [wt EXCEPT !.txt = txt, !.i = @ + 1]
                ELSE IF strip(txt) = strip(word)
                THEN [wt EXCEPT !.txt = txt, !.processed = FALSE]
                ELSE [wt EXCEPT !.lines = Append(@, ClosedLine(before, txt)),
                                !.txt = word \o <<" ">>, !.i = @ + 1]
    /\ wt_pc' = wt_pc
    /\ WtFrame

\* After the loop over the words: the word-wrapped result, or on to the
\* loop over the characters.
WtWordsEnd ==
    /\ wt_pc = "words"
    /\ ~wt.processed \/ wt.i > Len(wt.words)
    /\ LET lines == StripEach(Append(wt.lines, wt.txt))
       IN IF wt.processed
          THEN /\ wt_pc' = "done"
               /\ wt' = [wt EXCEPT !.lines = lines,
                                   !.result = strip(join(lines, LineBreak)),
                                   !.height = Len(lines) * wt_in.line_height,
                                   !.mode = "word"]
          ELSE /\ wt_pc' = "chars"
               /\ wt' = [wt EXCEPT !.lines = <<>>, !.txt = <<>>, !.i = 1]
    /\ WtFrame

\* One pass of `for word in chars`.
WtChar ==
    /\ wt_pc = "chars"
    /\ wt.i <= Len(wt_in.text)
    /\ LET txt == Append(wt.txt, wt_in.text[wt.i])
       IN wt' = IF get_text_size(txt) <= wt_in.max_width
                THEN [wt EXCEPT !.txt = txt, !.i = @ + 1]
                ELSE [wt EXCEPT !.lines = Append(@, txt), !.txt = <<>>,
                                !.i = @ + 1]
    /\ wt_pc' = wt_pc
    /\ WtFrame

\* After the loop over the characters: the character-wrapped result.
WtCharsEnd ==
    /\ wt_pc = "chars"
    /\ wt.i > Len(wt_in.text)
    /\ LET lines == Append(wt.lines, wt.txt)
       IN wt' = [wt EXCEPT !.lines = lines,
                           !.result = strip(join(lines, LineBreak)),
                           !.height = Len(lines) * wt_in.line_height,
                           !.mode = "char"]
    /\ wt_pc' = "done"
    /\ WtFrame

\* ------------------------------------------------------------ create_text_clip
\* Vertical positions are kept in 1/PosScale pixel: (H - h) * (p / 100) is
\* then a whole number for a whole percentage p.
PosScale == 100
\* margin = 10
Margin == 10

Max(a, b) == IF a >= b THEN a ELSE b

\* The custom position without its upper limit.
CustomYNoUpperLimit(video_height, clip_h, custom_position) ==
    Max(Margin * PosScale, (video_height - clip_h) * custom_position)

\* subtitle_position == "custom": the y given to with_position.
CustomY(video_height, clip_h, custom_position) ==
    LET max_y == (video_height - clip_h - Margin) * PosScale
        min_y == Margin * PosScale
        custom_y == (video_height - clip_h) * custom_position
    IN Max(min_y, Min(custom_y, max_y))

\* The y create_text_clip gives with_position; Unset stands for "center".
TextPosition(subtitle_position, video_height, clip_h, custom_position) ==
    IF subtitle_position = "bottom"
    THEN Some(95 * video_height - clip_h * PosScale)
    ELSE IF subtitle_position = "top"
    THEN Some(5 * video_height)
    ELSE IF subtitle_position = "custom"
    THEN Some(CustomY(video_height, clip_h, custom_position))
    ELSE Unset

\* The heights TextClip may render the wrapped text at, in pixels.
ClipHeights == {60, 1060, 1075}
SubtitlePositions == {"bottom", "top", "center", "custom"}
\* params.custom_position, in percent.
CustomPositions == {-20, 0, 70, 100, 130}

\* create_text_clip after wrap_text has returned: the text clip of height
\* clip_h is given its position.
CreateTextClip ==
    /\ wt_pc = "done"
    /\ \E aspect \in {"16:9", "9:16"}, clip_h \in ClipHeights,
          subtitle_position \in SubtitlePositions :
          \E custom_position \in IF subtitle_position = "custom"
                                 THEN CustomPositions ELSE {70} :
             LET video_height == to_resolution(aspect)[2]
             IN wt' = [wt EXCEPT !.clip =
                         [h |-> clip_h, video_height |-> video_height,
                          subtitle_position |-> subtitle_position,
                          custom_position |-> custom_position,
                          y |-> TextPosition(subtitle_position, video_height,
                                             clip_h, custom_position)]]
    /\ wt_pc' = "placed"
    /\ WtFrame

\* ------------------------------------------------------------ SpecText
Texts == UNION {[1..n -> Chars] : n \in 0..MaxTextLen}
LineHeights == {2}

InitText ==
    /\ OrchIdle
    /\ CvIdle
    /\ wt_in \in [text : Texts, max_width : 1..MaxWidth, line_height : LineHeights]
    /\ wt_pc = "begin"
    /\ wt = [words |-> <<>>, i |-> 0, txt |-> <<>>, lines |-> <<>>,
             processed |-> TRUE, result |-> <<>>, height |-> 0, mode |-> "", clip |-> NoClip]

NextText ==
    \/ WtBegin
    \/ WtWord
    \/ WtWordsEnd
    \/ WtChar
    \/ WtCharsEnd
    \/ CreateTextClip

SpecText == InitText /\ [][NextText]_vars

\* ------------------------------------------------------------ claims on wrap_text
\* The lines of the text wrap_text returned.
ReturnedLines == split(wt.result, LineBreak)

\* Some single word of the text is by itself wider than max_width.
SomeWordTooWide ==
    \E k \in 1..Len(split(wt_in.text, " ")) :
        get_text_size(split(wt_in.text, " ")[k]) > wt_in.max_width

\* C12: no line of the returned text is wider than max_width, and when a
\* single word alone is wider than max_width the text was character-wrapped.
C12_NoLineWiderThanMax ==
    wt_pc = "done" =>
        /\ \A k \in 1..Len(ReturnedLines) :
              get_text_size(ReturnedLines[k]) <= wt_in.max_width
        /\ SomeWordTooWide => wt.mode = "char"

\* The greedy word wrap: words are added to the current line, one space
\* apart, while the line fits; a word that does not fit closes the line and
\* starts the next one.
RECURSIVE GreedyLines(_, _)
GreedyLines(words, line) ==
    IF words = <<>> THEN <<line>>
    ELSE IF get_text_size(line \o Head(words) \o <<" ">>) <= wt_in.max_width
    THEN GreedyLines(Tail(words), line \o Head(words) \o <<" ">>)
    ELSE <<line>> \o GreedyLines(Tail(words), Head(words) \o <<" ">>)

GreedyWrap ==
    strip(join(StripEach(GreedyLines(split(wt_in.text, " "), <<>>)), LineBreak))

\* C13: the text is character-wrapped exactly when it does not fit on one
\* line and some single word of it, wherever it stands, is wider than
\* max_width; a text that does not fit and has no such word is wrapped
\* greedily by words.
C13_CharWrapIffWordTooWide ==
    wt_pc = "done" =>
        /\ wt.mode = "char" <=>
              (get_text_size(wt_in.text) > wt_in.max_width /\ SomeWordTooWide)
        /\ (get_text_size(wt_in.text) > wt_in.max_width /\ ~SomeWordTooWide) =>
              wt.result = GreedyWrap

\* ------------------------------------------------------------ claims on create_text_clip
\* A text clip has been placed with subtitle position 'custom'.
PlacedCustom == wt_pc = "placed" /\ wt.clip.subtitle_position = "custom"

\* The position lies within [10, H - h - 10].
WithinMargins ==
    /\ Margin * PosScale <= wt.clip.y[1]
    /\ wt.clip.y[1] <= (wt.clip.video_height - wt.clip.h - Margin) * PosScale

ParamsRender ==
    [video_script : {"a script"},
     video_terms : {<<"sea", "sun">>},
     video_source : {"pexels"},
     video_count : 0..MaxVideoCount,
     video_concat_mode : {"random"},
     video_transition_mode : {TransitionNone},
     video_clip_duration : {5},
     subtitle_enabled : BOOLEAN,
     bgm_type : {"", "random", "pop"},
     bgm_file : {"", "bgm.mp3"},
     font_name : {"", DefaultFont},
     font_size : {60},
     stroke_width : {15, 20}]

FilesSet == [bgm_exists : BOOLEAN, songs : 0..1, bgm_decodes : BOOLEAN]

InitRender ==
    /\ params \in ParamsRender
    /\ files \in FilesSet
    /\ stop_at = "video"
    /\ pc = "start"
    /\ task = NewTask
    /\ events = <<>>
    /\ result = ResultPending
    /\ locals = LocalsInit
    /\ CvIdle
    /\ TextIdle

SpecRender == InitRender /\ [][Next]_vars

\* ------------------------------------------------------------ claims on the render
\* C15: no failure to obtain or prepare the background track leaves
\* generate_video as an exception (which would keep the task from Complete),
\* and a video rendered after such a failure carries the voice alone.
C15_BgmFailureNonFatal ==
    \A i \in 1..Len(events) :
        /\ (events[i].kind = "raise" /\ events[i].name = "video.generate_video")
              => events[i].error # "IndexError"
        /\ (events[i].kind = "return" /\ events[i].name = "video.generate_video"
              /\ events[i].value.bgm_failed)
              => events[i].value.audio = "voice"

\* generate_subtitle has returned an empty path at event i.
NoSubtitleAt(i) ==
    /\ events[i].kind = "return"
    /\ events[i].name = "generate_subtitle"
    /\ events[i].value = ""

\* C16: after the subtitle stage has yielded an empty path the record is not
\* set to Failed for it, a run that is to go further reaches the materials
\* stage, and every render is given the empty path and overlays no subtitle.
C16_SubtitleFailureNonFatal ==
    \A i \in 1..Len(events) :
        NoSubtitleAt(i) =>
            /\ events[i + 1].kind = "update"
            /\ events[i + 1].fields.state # TaskFailed
            /\ (pc \in {"done", "raised"} /\ stop_at \in {"materials", "video"}) =>
                  \E j \in (i + 1)..Len(events) :
                      events[j].kind = "return" /\ events[j].name = "get_video_materials"
            /\ \A j \in (i + 1)..Len(events) :
                  /\ (events[j].kind = "call" /\ events[j].name = "video.generate_video")
                        => events[j].args.subtitle_path = ""
                  /\ (events[j].kind = "return" /\ events[j].name = "video.generate_video")
                        => ~events[j].value.overlays

\* A run with subtitles enabled whose subtitle file held no entry, and that
\* ended Complete with a final video rendered.
C16_Witness ==
    /\ pc = "done"
    /\ task.state = TaskComplete
    /\ params.subtitle_enabled
    /\ \E i \in 1..Len(events) : NoSubtitleAt(i)
    /\ \E j \in 1..Len(events) :
          /\ events[j].kind = "return"
          /\ events[j].name = "video.generate_video"
          /\ ~events[j].value.overlays

\* ------------------------------------------------------------ claims on the artifacts
\* The events of the video stage's collaborators, in order: <<name, file>>.
RECURSIVE ArtifactCalls(_)
ArtifactCalls(es) ==
    IF es = <<>> THEN <<>>
    ELSE LET e == Head(es)
         IN (IF e.kind = "call" /\ e.name = "video.combine_videos"
             THEN <<<<"combine", e.args.combined_video_path>>>>
             ELSE IF e.kind = "call" /\ e.name = "video.generate_video"
             THEN <<<<"render", e.args.output_file>>>>
             ELSE <<>>) \o ArtifactCalls(Tail(es))

\* combine 1, render 1, combine 2, render 2, ... for n outputs.
ExpectedCalls(n) ==
    [k \in 1..(2 * n) |->
        IF k % 2 = 1 THEN <<"combine", <<"combined-", (k + 1) \div 2, ".mp4">>>>
        ELSE <<"render", <<"final-", k \div 2, ".mp4">>>>]

\* A run to the video stage has ended Complete.
VideoRunComplete ==
    pc = "done" /\ stop_at = "video" /\ task.state = TaskComplete

\* C17: a run to the video stage that ends Complete with N >= 1 outputs has
\* produced combined-n.mp4 and final-n.mp4 for n = 1..N, lists them in index
\* order in the record and in its result, and made one combine pass and one
\* render per index, in the order combine 1, render 1, combine 2, ...
C17_ArtifactsPerOutput ==
    VideoRunComplete =>
        LET N == params.video_count
        IN /\ N >= 1
           /\ task.outputs.videos =
                 Some([n \in 1..N |-> <<"final-", n, ".mp4">>])
           /\ task.outputs.combined_videos =
                 Some([n \in 1..N |-> <<"combined-", n, ".mp4">>])
           /\ result.kind = "dict"
           /\ result.value.videos = task.outputs.videos[1]
           /\ result.value.combined_videos = task.outputs.combined_videos[1]
           /\ ArtifactCalls(events) = ExpectedCalls(N)

\* A Complete run with the largest output count.
C17_Witness ==
    /\ VideoRunComplete
    /\ params.video_count = MaxVideoCount
    /\ Len(task.outputs.videos[1]) = MaxVideoCount

\* ------------------------------------------------------------ SpecFrames
\* combine_videos again, over source clips of many resolutions and every
\* aspect: short clips, so that the frames are what varies.
FrameSizes == {<<1080, 1920>>, <<1920, 1080>>, <<1080, 1080>>,
               <<540, 960>>, <<640, 480>>, <<300, 900>>, <<854, 480>>}
FrameClips == [duration : {1}, size : FrameSizes]

FrameInputs ==
    [video_paths : UNION {[1..n -> FrameClips] : n \in 1..MaxPaths},
     audio_duration : 1..2,
     max_clip_duration : {1},
     video_aspect : {"16:9", "9:16", "1:1"},
     video_concat_mode : {ConcatRandom, ConcatSequential},
     video_transition_mode : {TransitionUnset, "None", "Shuffle"}]

InitFrames ==
    /\ OrchIdle
    /\ TextIdle
    /\ cv_in \in FrameInputs
    /\ cv_pc = "begin"
    /\ raw_clips = <<>>
    /\ clips = <<>>
    /\ video_duration = 0
    /\ cv_loop = [path |-> 0, start_time |-> 0, pool |-> 0,
                  effect |-> "", error |-> ""]

SpecFrames == InitFrames /\ [][NextCombine]_vars

\* ------------------------------------------------------------ claims on the frames
\* The target resolution of each aspect, as the claim lists them.
TargetResolution ==
    IF cv_in.video_aspect = "16:9" THEN <<1920, 1080>>
    ELSE IF cv_in.video_aspect = "9:16" THEN <<1080, 1920>>
    ELSE <<1080, 1080>>

\* C18: every segment of the packed sequence has the target resolution of the
\* selected aspect as its frame, whatever the resolution of its source clip.
C18_FrameIsTargetResolution ==
    \A i \in 1..Len(clips) : clips[i].size = TargetResolution

\* A finished run with a letterboxed segment in a square frame, whose source
\* clip had another resolution.
C18_Witness ==
    /\ cv_pc = "done"
    /\ cv_in.video_aspect = "1:1"
    /\ \E i \in 1..Len(clips) :
          /\ clips[i].fit = "letterbox"
          /\ cv_in.video_paths[clips[i].src].size # clips[i].size

\* ------------------------------------------------------------ claims on the params
\* The concat mode of the run once coerced: random for more than one output.
CoercedConcatMode ==
    IF params.video_count > 1 THEN ConcatRandom ELSE params.video_concat_mode

\* C19: the concat mode is coerced before the script stage, so that every
\* stage's collaborator is given the coerced mode: the material provider at
\* the materials stage as well as combine_videos at the video stage.
C19_ConcatCoercedBeforeScript ==
    \A i \in 1..Len(events) :
        /\ (events[i].kind = "call" /\ events[i].name = "material.download_videos")
              => events[i].args.video_contact_mode = CoercedConcatMode
        /\ (events[i].kind = "call" /\ events[i].name = "video.combine_videos")
              => events[i].args.video_concat_mode = CoercedConcatMode

\* The video stage is between its first combine_videos call and start's return.
Assembling == pc \in {"combine", "render", "finish"}

\* C20: no step of the video stage changes a field of the params object, and
\* the only change a run makes to it is to force the concat mode to random
\* when more than one output is asked for.
C20_ParamsImmutable ==
    [][/\ Assembling => params' = params
       /\ params' # params =>
             /\ params.video_count > 1
             /\ params' = [params EXCEPT !.video_concat_mode = ConcatRandom]]_vars

\* ------------------------------------------------------------ claims on the stages
\* start has left the terms stage and gone on.
PastTerms == pc \in {"audio", "subtitle", "materials", "video", "combine",
                     "render", "finish"}

\* C21: with local materials the term collaborator is never called and
\* generate_terms never returns (so it cannot report a failure), a Failed run
\* has another stage's failure behind it, and the run goes on from the script
\* with empty terms.
C21_LocalSkipsTerms ==
    params.video_source = "local" =>
        /\ \A i \in 1..Len(events) :
              /\ ~(events[i].kind = "call" /\ events[i].name = "llm.generate_terms")
              /\ ~(events[i].kind = "return" /\ events[i].name = "generate_terms")
        /\ task.state = TaskFailed =>
              \E i \in 1..Len(events) :
                  StageReportsFailure(events[i]) \/
                  (events[i].kind = "return" /\ events[i].name = "generate_final_videos")
        /\ PastTerms => locals.video_terms = <<>>
        /\ (pc = "done" /\ stop_at = "terms" /\ task.state = TaskComplete) =>
              task.outputs.terms = Some(<<>>)

\* A local run, given terms it has no use for, that got past the terms stage
\* to the end of the materials stage.
C21_Witness ==
    /\ params.video_source = "local"
    /\ params.video_terms # <<>>
    /\ pc = "video"
    /\ locals.video_terms = <<>>

\* The keys of the record a stage's output is stored under.
KeysOfStage(stage) == {k \in OutputKeys : StageOfKey(k) = stage}

\* The stage has run and succeeded: start is at a later stage, or has ended
\* Complete at a checkpoint not before it. The terms stage does not run for
\* local materials.
StageSucceeded(stage) ==
    /\ stage = "terms" => NeedsTerms(params)
    /\ \/ /\ pc \in {"terms", "audio", "subtitle", "materials", "video",
                     "combine", "render", "finish"}
          /\ StageOrder(StageOfPc) > StageOrder(stage)
       \/ /\ pc = "done"
          /\ task.state = TaskComplete
          /\ StageOrder(stop_at) >= StageOrder(stage)

\* C22: once a stage before the video stage has succeeded, the task record
\* holds its output: while the next stages run, and at an early-stop
\* checkpoint for every stage run so far.
C22_StageOutputStored ==
    \A stage \in {"script", "terms", "audio", "subtitle", "materials"} :
        StageSucceeded(stage) =>
            \A k \in KeysOfStage(stage) : task.outputs[k] # Unset

\* The progress values start has written to the record, in order.
ProgressWrites ==
    SelectSeq(events, LAMBDA e : e.kind = "update" /\ "progress" \in DOMAIN e.fields)

LastProgressWritten ==
    IF ProgressWrites = <<>> THEN 0
    ELSE ProgressWrites[Len(ProgressWrites)].fields.progress

\* 50 + k * 50 / (2N), in progress units.
AfterStep(k) == Pct(50) + (k * Pct(50)) \div (2 * params.video_count)

PoolWindowsOf(n) == {i \in 1..Len(raw_clips) : raw_clips[i].src = n}

\* The number of windows of length m that cover [0, d).
WindowsNeeded(d, m) == (d + m - 1) \div m

\* C24: in random mode the windows cut from a source clip of duration d start
\* at 0, m apart, each of length m but the last, of length d mod m (m when m
\* divides d): one window per start 0, m, 2m, ... below d, and no other.
C24_WindowsTileClip ==
    (PoolReady /\ cv_in.video_concat_mode = ConcatRandom) =>
        \A n \in 1..Len(cv_in.video_paths) :
            LET d == cv_in.video_paths[n].duration
                m == cv_in.max_clip_duration
                count == WindowsNeeded(d, m)
            IN /\ Cardinality(PoolWindowsOf(n)) = count
               /\ \A k \in 0..(count - 1) :
                     \E i \in PoolWindowsOf(n) :
                        /\ raw_clips[i].start = k * m
                        /\ raw_clips[i].duration =
                              IF k < count - 1 \/ d % m = 0 THEN m ELSE d % m

\* A random pool over a clip that m does not divide: a last window of d mod m.
C24_Witness ==
    /\ PoolReady
    /\ cv_in.video_concat_mode = ConcatRandom
    /\ \E i \in 1..Len(raw_clips) :
          /\ raw_clips[i].start > 0
          /\ raw_clips[i].duration < cv_in.max_clip_duration

\* ------------------------------------------------------------ claims on the packer's use of the pool
\* The packing loop is running, or has just been left.
Packing == cv_pc \in {"pack_while", "pack_for", "write"}

\* The i-th packed segment (from 1) is cut from the head of pool element
\* ((i - 1) mod n) + 1, and lasts as long as that element unless less than
\* that was left to fill.
DerivedCyclically ==
    \A i \in 1..Len(clips) :
        LET n == Len(raw_clips)
            element == raw_clips[((i - 1) % n) + 1]
            left == cv_in.audio_duration - SumDuration(SubSeq(clips, 1, i - 1))
        IN /\ clips[i].src = element.src
           /\ clips[i].start = element.start
           /\ clips[i].duration = Min(element.duration, left)

\* C25: the packer goes through the pool in pool order and starts again at its
\* head when it has reached its end, and no step of packing changes the pool:
\* its length, its order and every element's window stay as they were.
C25_PoolCycledNotMutated ==
    [][Packing => (raw_clips' = raw_clips /\ DerivedCyclically')]_vars

\* A pool of two or more windows gone through more than once, a reused window
\* packed at its full duration both times.
C25_Witness ==
    /\ cv_pc = "done"
    /\ Len(raw_clips) >= 2
    /\ Len(clips) > Len(raw_clips)
    /\ raw_clips[1] # raw_clips[2]
    /\ clips[Len(raw_clips) + 1].duration = raw_clips[1].duration
    /\ clips[1].duration = raw_clips[1].duration

\* ------------------------------------------------------------ claims on the scaled picture
\* The picture of a letterboxed segment cut from a w x h clip fits the W x H
\* frame, and the dimension it was scaled by fills the frame: the width when
\* w/h > W/H, the height otherwise; the other dimension is scaled by the same
\* factor and truncated.
FitsFrame(content, w, h, W, H) ==
    /\ content[1] <= W
    /\ content[2] <= H
    /\ IF w * H > W * h
       THEN content = <<W, (h * W) \div w>>
       ELSE content = <<(w * H) \div h, H>>

\* C26: the picture of every letterboxed segment is its source clip's picture
\* scaled by W/w when w/h > W/H and by H/h otherwise; it lies within the frame
\* and the dimension scaled by is the frame's.
C26_ScaledContentFits ==
    \A i \in 1..Len(clips) :
        clips[i].fit = "letterbox" =>
            FitsFrame(clips[i].content,
                      cv_in.video_paths[clips[i].src].size[1],
                      cv_in.video_paths[clips[i].src].size[2],
                      TargetResolution[1], TargetResolution[2])

\* ------------------------------------------------------------ claims on wrap_text's height
\* C27: the height wrap_text returns is the height of one line times the
\* number of lines of the text it returns, in word-wrap and in character-wrap
\* mode (and one line's height when the text is returned unwrapped).
C27_HeightIsLineCountTimesLineHeight ==
    wt_pc = "done" => wt.height = wt_in.line_height * Len(ReturnedLines)

\* ------------------------------------------------------------ claims on what start returns
\* start has ended: it returned, or an exception left it.
Ended == pc \in {"done", "raised"}

\* C28: start returns a mapping of outputs, never an empty one, exactly when
\* the state it leaves recorded is Complete; when it leaves Failed it returned
\* nothing; it never returns a mapping and leaves Processing.
C28_ResultIffComplete ==
    /\ Ended => (result.kind = "dict" <=> task.state = TaskComplete)
    /\ result.kind = "dict" => (Ended /\ DOMAIN result.value # {})
    /\ (Ended /\ task.state = TaskFailed) => result = ResultNone
    /\ (Ended /\ task.state = TaskProcessing) => result.kind # "dict"

\* A run through every stage that returned its outputs and left Complete.
C28_Witness ==
    /\ pc = "done"
    /\ stop_at = "video"
    /\ task.state = TaskComplete
    /\ result.kind = "dict"
    /\ "videos" \in DOMAIN result.value

\* ------------------------------------------------------------ claims on the transition modes
\* C29: with the transition mode unset or 'none', combine_videos applies no
\* effect and does not fail on the mode: no segment is rejected for it, so a
\* run over valid inputs goes on to its write step.
C29_UnsetTransitionHandled ==
    cv_in.video_transition_mode \in {TransitionUnset, TransitionNone} =>
        /\ ~(cv_pc = "raised" /\ cv_loop.error = "AttributeError")
        /\ cv_loop.effect \in {"", "none"}

\* ------------------------------------------------------------ claims on termination
\* Some source clip has a positive duration.
HasPositiveClip ==
    \E n \in 1..Len(cv_in.video_paths) : cv_in.video_paths[n].duration > 0

\* The passes the splitting loop can still make from source clip `path` on:
\* one per tick of duration left, and one to leave each clip.
RECURSIVE SplitLeft(_)
SplitLeft(path) ==
    IF path > Len(cv_in.video_paths) THEN 0
    ELSE cv_in.video_paths[path].duration + 1 + SplitLeft(path + 1)

RECURSIVE TotalDuration(_)
TotalDuration(paths) ==
    IF paths = <<>> THEN 0 ELSE Head(paths).duration + TotalDuration(Tail(paths))

\* A variant of combine_videos' loops: a natural number that bounds the steps
\* still to come. In the packing loop it weighs what is left to fill by the
\* length of one pass over the pool, the first segment of a pass counted
\* before the others because it is the one that always adds to the total.
Variant ==
    LET n == Len(raw_clips)
        left == cv_in.audio_duration - video_duration
        pass == n + 3
        windows == TotalDuration(cv_in.video_paths)
        packing == cv_in.audio_duration * (windows + 3) + windows + 3
    IN CASE cv_pc = "begin" -> packing + SplitLeft(1) + 1
         [] cv_pc = "for_paths" -> packing + SplitLeft(cv_loop.path) - cv_loop.start_time
         [] cv_pc = "pack_while" -> left * pass + n + 2
         [] cv_pc = "pack_for" ->
                IF cv_loop.pool = 1 THEN left * pass + n + 1
                ELSE left * pass + pass + (n + 1 - cv_loop.pool)
         [] cv_pc = "write" -> 1
         [] OTHER -> 0

\* C30: with max_clip_duration > 0 and a source clip of positive duration, the
\* splitting loop and the packing loop terminate: every step of combine_videos
\* lowers a variant that is never negative, so no run goes round a loop for
\* ever; and when the packing loop is left by its test, the accumulated video
\* duration is at least the target duration.
C30_LoopsTerminate ==
    [][HasPositiveClip =>
          /\ Variant' < Variant
          /\ Variant' >= 0
          /\ Packed' => video_duration' >= cv_in.audio_duration]_vars

\* A finished run in which the splitting loop cut a clip into several windows
\* and the packing loop went through the pool more than once.
C30_Witness ==
    /\ cv_pc = "done"
    /\ HasPositiveClip
    /\ \E i \in 1..Len(raw_clips) : raw_clips[i].start > 0
    /\ Len(clips) > Len(raw_clips)
    /\ video_duration >= cv_in.audio_duration

\* ------------------------------------------------------------ claims on wrap_text's content
\* The lines one after the other, nothing between them.
RECURSIVE Concat(_)
Concat(lines) == IF lines = <<>> THEN <<>> ELSE Head(lines) \o Concat(Tail(lines))

\* The returned text with its line breaks taken out: word-wrapped lines
\* joined by one space, character-wrapped lines put end to end.
Unwrapped ==
    IF wt.mode = "word" THEN join(ReturnedLines, " ")
    ELSE IF wt.mode = "char" THEN Concat(ReturnedLines)
    ELSE wt.result

\* C31: wrap_text drops, repeats and reorders nothing: the returned text with
\* its line breaks taken out is the input text, up to whitespace at its ends.
C31_ContentPreserved ==
    wt_pc = "done" => strip(Unwrapped) = strip(wt_in.text)

\* The text t is the lines in their order with one or more spaces at every
\* break between two of them, and nothing else.
RECURSIVE BreaksAreSpaces(_, _)
BreaksAreSpaces(lines, t) ==
    IF Len(lines) = 1 THEN t = lines[1]
    ELSE LET n == Len(Head(lines))
         IN /\ Len(t) > n
            /\ SubSeq(t, 1, n) = Head(lines)
            /\ t[n + 1] = " "
            /\ BreaksAreSpaces(Tail(lines), lstrip(SubSeq(t, n + 1, Len(t))))

\* C31, amended: wrap_text drops, repeats and reorders nothing but spaces at a
\* break. The returned text with its line breaks taken out is the input text
\* up to whitespace at its ends and, for word-wrapped text, up to the number
\* of spaces at each place where a line was broken.
C31_ContentPreservedUpToBreaks ==
    wt_pc = "done" =>
        IF wt.mode = "word"
        THEN BreaksAreSpaces(ReturnedLines, strip(wt_in.text))
        ELSE strip(Unwrapped) = strip(wt_in.text)

\* A word-wrapped text broken at a run of two or more spaces: re-joined with
\* single spaces it is shorter than the input.
C31_Witness ==
    /\ wt_pc = "done"
    /\ wt.mode = "word"
    /\ Len(ReturnedLines) >= 2
    /\ strip(Unwrapped) # strip(wt_in.text)

====
